---- MODULE Spec2Model ----
(***************************************************************************)
(* Model of the OfflineQueue class of src/safeAsyncUtils.js (lines 278-378) *)
(* together with the collaborators it touches: localStorage under the key   *)
(* "offline_operation_queue", navigator.onLine with the window "online"     *)
(* event, and the execution of a queued operation.                          *)
(*                                                                          *)
(* The try block of processQueue (lines 339-348) holds the place where the  *)
(* operation is executed (lines 340-342, a comment and a log call), then    *)
(* item.attempts++ (line 344), then queue.shift() and saveQueue() (lines    *)
(* 347-348).  The execution itself is an opaque asynchronous call of the    *)
(* collaborator: the pass is suspended on it and it either resolves, after  *)
(* which lines 344-348 run, or rejects, after which the catch block (lines  *)
(* 349-364) runs with item.attempts as it was.                              *)
(***************************************************************************)
EXTENDS Integers, Sequences, FiniteSets, TLC

\* ------------------------------------------------------------------ bounds
MaxOps == 3          \* operations enqueued in one behaviour (identifiers 1..MaxOps)
FailCap == 3         \* the failure counters saturate here
PassCap == 2         \* a pass's count of executions saturates here
MaxRestarts == 1     \* process terminations followed by a new construction
MaxWriteFails == 1   \* localStorage.setItem calls that throw
MaxTasks == 3        \* tasks handed to the streak computation
MaxDaysBack == 3     \* how many days before now a task can have been completed
MaxSessions == 3     \* focus sessions handed to analyzeBurnoutRisk
MaxFocusSessions == 6  \* focus sessions handed to detectProductivityPatterns
MaxRecTasks == 4     \* tasks handed to generateSmartTaskRecommendations
MaxHistory == 2      \* historical tasks handed to estimateTaskDuration
MaxRetry == 2        \* the largest options.retryCount given to safeAsync

\* ------------------------------------------------------- program constants
MaxAttempts == 3     \* "if (item.attempts >= 3)"

OpIds == 1..MaxOps

VARIABLES
  queueShape,   \* what this.queue is: "array", or "null" / "number" / "object"
  queue,        \* the elements of this.queue when it is an array
  storage,      \* the text stored under "offline_operation_queue"
  processing,   \* this.processing
  online,       \* navigator.onLine
  passes,       \* drain passes suspended on an executing operation
  nextId,       \* the next identifier add() hands out
  restarts,     \* constructions after a process termination
  writeFails,   \* setItem calls that threw
  lastSave,     \* outcome of the latest saveQueue since construction
  watched,      \* an arbitrary operation, fixed for the behaviour, whose
                \* history the next three variables record
  wFails,       \* executions of the watched operation that rejected
  wExecuted,    \* an execution of the watched operation has been started
  wGone,        \* the watched operation was removed for a reason of its own:
                \* its execution resolved, it was discarded, or clearQueue
                \* ran while it was queued
  ev,           \* the handler that ran last and how it ended
  waiting,      \* the identifier of the add() call that is suspended on
                \* "await this.processQueue()" (0: no add() call is)
  ret,          \* what an add() call handed to its caller in the last step:
                \* the identifier, Rejected, or NoReturn
  ins,          \* the call of an insights function and its result
  sa            \* the call of safeAsync: where it stands and what it has done

qvars == <<queueShape, queue, storage, processing, online, passes, nextId,
           restarts, writeFails, lastSave, watched, wFails, wExecuted, wGone,
           ev, waiting, ret>>
vars == <<qvars, ins, sa>>

\* ------------------------------------------------------------- queue items
\* { id, operation, data, metadata, timestamp, attempts }: the identifier and
\* the attempt counter are what the queue reads; the rest is opaque payload.
OpItem(i, a) == [tag |-> "op", id |-> i, attempts |-> a]
Undefined == [tag |-> "undefined", id |-> 0, attempts |-> 0]
NullItem == [tag |-> "null", id |-> 0, attempts |-> 0]

Min(a, b) == IF a < b THEN a ELSE b
Range(s) == {s[k] : k \in 1..Len(s)}
IdsOf(q) == {q[k].id : k \in {j \in 1..Len(q) : q[j].tag = "op"}}
RemoveAt(s, p) == [k \in 1..(Len(s) - 1) |-> IF k < p THEN s[k] ELSE s[k + 1]]

\* ------------------------------------------------------------ localStorage
\* The stored text, by what JSON.parse makes of it.
StoredText(kind, items) == [kind |-> kind, items |-> items]
NonArrayKinds == {"null", "number", "object"}
UnreadableKinds == {"absent", "empty", "garbage"}

\* JSON.stringify(this.queue): an array element that is undefined is written
\* as null; a queued operation is written with its fields.
JSONstringify(shape, q) ==
  IF shape = "array"
    THEN StoredText("array",
           [k \in 1..Len(q) |-> IF q[k].tag = "undefined" THEN NullItem ELSE q[k]])
    ELSE StoredText(shape, <<>>)

\* loadQueue(): saved ? JSON.parse(saved) : [], and [] when that throws.
LoadShape(st) == IF st.kind \in NonArrayKinds THEN st.kind ELSE "array"
LoadItems(st) == IF st.kind = "array" THEN st.items ELSE <<>>

\* saveQueue(): setItem either stores the text or throws, which is caught.
SaveQueue(shape, q, ok) == IF ok THEN JSONstringify(shape, q) ELSE storage

\* getQueueLength(): this.queue.length
GetQueueLength ==
  CASE queueShape = "array" -> Len(queue)
    [] queueShape = "null" -> "TypeError"
    [] OTHER -> "undefined"

\* ------------------------------------------------------------ processQueue
\* A suspended pass: the item it holds (const item = this.queue[0]) and the
\* number of executions the pass has started.
Pass(it, n) == [id |-> it.id, attempts |-> it.attempts, n |-> Min(n, PassCap)]
PassResult(proc, ps, started, outcome) ==
  [processing |-> proc, passes |-> ps, started |-> started, outcome |-> outcome]

\* The guard of line 330 without the flag (a pass that ignores this.processing).
DrainGuardNoFlag(proc, shape, q) == shape = "array" /\ Len(q) = 0

\* if (this.processing || this.queue.length === 0) return;
DrainGuard(proc, shape, q) == proc \/ (shape = "array" /\ Len(q) = 0)

\* The while condition of line 336 without its navigator.onLine conjunct.
DrainLoopIgnoresOnline(q, on, ps, n) ==
  IF Len(q) > 0
    THEN IF q[1].tag = "op"
           THEN PassResult(TRUE, Append(ps, Pass(q[1], n + 1)), q[1].id, "suspended")
           ELSE PassResult(TRUE, ps, 0, "threw")
    ELSE PassResult(FALSE, ps, 0, "returned")

\* One evaluation of the while condition of line 336 and, when it holds, the
\* run up to the execution of the head item.  An element that is undefined or
\* null makes item.attempts++ throw a TypeError, and the catch block throws
\* again on item.attempts, so the error leaves processQueue before line 367.
DrainLoop(q, on, ps, n) ==
  IF Len(q) > 0 /\ on
    THEN IF q[1].tag = "op"
           THEN PassResult(TRUE, Append(ps, Pass(q[1], n + 1)), q[1].id, "suspended")
           ELSE PassResult(TRUE, ps, 0, "threw")
    ELSE PassResult(FALSE, ps, 0, "returned")

\* processQueue() from its call to its first suspension or its return.
\* this.queue.length throws on null and is undefined on a number or an object.
ProcessQueue(shape, q, proc, on, ps) ==
  IF DrainGuard(proc, shape, q)
    THEN PassResult(proc, ps, 0, IF proc THEN "blocked" ELSE "empty")
    ELSE IF shape = "null"
      THEN PassResult(proc, ps, 0, "threw")
      ELSE IF shape # "array"
        THEN PassResult(FALSE, ps, 0, "returned")
        ELSE DrainLoop(q, on, ps, 0)

\* add() is async: its promise settles when "await this.processQueue()" (line
\* 323) is over, and "return id" (line 326) runs only then.
NoReturn == 0
Rejected == -1
NoCall == [fn |-> "none"]
NotCalled ==
  [pc |-> "idle", retryCount |-> 0, onSuccess |-> "none", onError |-> "none",
   attempt |-> 0, calls |-> 0, resolved |-> 0, calledAfterResolve |-> FALSE,
   onErrorCalls |-> 0, result |-> "none"]

\* add() after its processQueue() call came back with this outcome, or
\* without the call when offline: suspended on the pass it started, rejected
\* with the error the pass threw, or returning the identifier.
AddReturn(outcome, id) ==
  CASE outcome = "suspended" -> NoReturn
    [] outcome = "threw" -> Rejected
    [] OTHER -> id

\* The pass ends with this outcome: the add() call that awaits it, if there is
\* one, goes on to "return id" or rejects with the error of the pass.
PassEnds(outcome) ==
  /\ ret' = CASE outcome = "suspended" -> NoReturn
              [] outcome = "threw" -> IF waiting # 0 THEN Rejected ELSE NoReturn
              [] OTHER -> waiting
  /\ waiting' = IF outcome = "suspended" THEN waiting ELSE 0

\* Bookkeeping of an execution started for operation s (0: none started).
Started(s) == wExecuted' = (wExecuted \/ s = watched)

\* Bookkeeping of one saveQueue call.
Saved(ok) ==
  /\ ok \/ writeFails < MaxWriteFails
  /\ writeFails' = IF ok THEN writeFails ELSE writeFails + 1
  /\ lastSave' = IF ok THEN "ok" ELSE "failed"

\* ------------------------------------------------------------------- Init
Init ==
  /\ \E k \in UnreadableKinds \cup NonArrayKinds : storage = StoredText(k, <<>>)
  /\ queueShape = LoadShape(storage)
  /\ queue = LoadItems(storage)
  /\ processing = FALSE
  /\ online \in BOOLEAN
  /\ passes = <<>>
  /\ nextId = 1
  /\ restarts = 0
  /\ writeFails = 0
  /\ lastSave = "none"
  /\ watched \in OpIds
  /\ wFails = 0
  /\ wExecuted = FALSE
  /\ wGone = FALSE
  /\ ev = [op |-> "construct", outcome |-> "returned"]
  /\ waiting = 0
  /\ ret = NoReturn
  /\ ins = NoCall
  /\ sa = NotCalled

\* ---------------------------------------------------------------- actions
\* add(operation, data, metadata): push, saveQueue, and processQueue when
\* navigator.onLine.  this.queue.push throws when this.queue is no array.
\* this.queue.unshift(...) in place of push: the new item goes to the head.
EnqueueAtHead(q, id) == <<OpItem(id, 0)>> \o q

\* this.queue.push({ id, operation, data, metadata, timestamp, attempts: 0 })
Enqueue(q, id) == Append(q, OpItem(id, 0))

AddThrows ==
  /\ nextId <= MaxOps
  /\ queueShape # "array"
  /\ ev' = [op |-> "add", outcome |-> "push threw"]
  /\ ret' = Rejected
  /\ UNCHANGED <<queueShape, queue, storage, processing, online, passes, nextId,
                 restarts, writeFails, lastSave, watched, wFails, wExecuted,
                 wGone, waiting>>

\* add() with a saveQueue() that has no try/catch: the error of setItem leaves
\* add() after the push and before processQueue().
AddSaveUncaught(ok) ==
  /\ nextId <= MaxOps
  /\ queueShape = "array"
  /\ LET q1 == Enqueue(queue, nextId)
         r == IF ~ok
                THEN PassResult(processing, passes, 0, "threw")
                ELSE IF online
                  THEN ProcessQueue("array", q1, processing, online, passes)
                  ELSE PassResult(processing, passes, 0, "queued")
     IN /\ queue' = q1
        /\ storage' = SaveQueue("array", q1, ok)
        /\ Saved(ok)
        /\ processing' = r.processing
        /\ passes' = r.passes
        /\ Started(r.started)
        /\ ev' = [op |-> "add", outcome |-> r.outcome]
        /\ ret' = AddReturn(r.outcome, nextId)
        /\ waiting' = IF r.outcome = "suspended" THEN nextId ELSE waiting
  /\ nextId' = nextId + 1
  /\ UNCHANGED <<queueShape, online, restarts, watched, wFails, wGone>>

Add(ok) ==
  /\ nextId <= MaxOps
  /\ queueShape = "array"
  /\ LET q1 == Enqueue(queue, nextId)
         r == IF online
                THEN ProcessQueue("array", q1, processing, online, passes)
                ELSE PassResult(processing, passes, 0, "queued")
     IN /\ queue' = q1
        /\ storage' = SaveQueue("array", q1, ok)
        /\ Saved(ok)
        /\ processing' = r.processing
        /\ passes' = r.passes
        /\ Started(r.started)
        /\ ev' = [op |-> "add", outcome |-> r.outcome]
        /\ ret' = AddReturn(r.outcome, nextId)
        /\ waiting' = IF r.outcome = "suspended" THEN nextId ELSE waiting
  /\ nextId' = nextId + 1
  /\ UNCHANGED <<queueShape, online, restarts, watched, wFails, wGone>>

\* Connectivity returns: navigator.onLine becomes true and the window "online"
\* event runs the listener of line 285.
GoOnline ==
  /\ ~online
  /\ online' = TRUE
  /\ LET r == ProcessQueue(queueShape, queue, processing, TRUE, passes)
     IN /\ processing' = r.processing
        /\ passes' = r.passes
        /\ Started(r.started)
        /\ ev' = [op |-> "online", outcome |-> r.outcome]
  /\ ret' = NoReturn
  /\ UNCHANGED <<queueShape, queue, storage, nextId, restarts, writeFails,
                 lastSave, watched, wFails, wGone, waiting>>

GoOffline ==
  /\ online
  /\ online' = FALSE
  /\ ev' = [op |-> "offline", outcome |-> "returned"]
  /\ ret' = NoReturn
  /\ UNCHANGED <<queueShape, queue, storage, processing, passes, nextId,
                 restarts, writeFails, lastSave, watched, wFails, wExecuted,
                 wGone, waiting>>

\* The remote mutation endpoint: an opaque asynchronous call that a pass is
\* suspended on and that settles at some later turn, by resolving or by
\* rejecting.
CollaboratorSettles(p) == p \in 1..Len(passes)

\* item.attempts++ (line 344) on the object the pass holds: seen in the queue
\* when that object is still an element of it.
BumpAttempts(q, id) ==
  [k \in 1..Len(q) |->
     IF q[k].tag = "op" /\ q[k].id = id
       THEN OpItem(id, q[k].attempts + 1) ELSE q[k]]

\* this.queue.shift(): removes the first element; nothing on an empty array.
Shift(q) == IF q = <<>> THEN q ELSE Tail(q)

\* this.queue.push(this.queue.shift()): shift() of an empty array is undefined.
Requeue(q) == IF q = <<>> THEN <<Undefined>> ELSE Append(Tail(q), Head(q))

\* The execution a pass is suspended on resolves: lines 344-348, then the
\* while condition again.
ExecResolves(p, ok) ==
  /\ CollaboratorSettles(p)
  /\ LET it == passes[p]
         q2 == Shift(BumpAttempts(queue, it.id))
         r == DrainLoop(q2, online, RemoveAt(passes, p), it.n)
     IN /\ queue' = q2
        /\ storage' = SaveQueue(queueShape, q2, ok)
        /\ Saved(ok)
        /\ processing' = r.processing
        /\ passes' = r.passes
        /\ Started(r.started)
        /\ wGone' = (wGone \/ it.id = watched)
        /\ ev' = [op |-> "resolve", outcome |-> r.outcome]
        /\ PassEnds(r.outcome)
  /\ UNCHANGED <<queueShape, online, nextId, restarts, watched, wFails>>

\* The catch block's choice (line 353) as the code makes it.
TooManyAttempts(it) == it.attempts >= MaxAttempts

\* What the queue keeps of the operations it discarded: the discard branch
\* (lines 354-356) writes a console warning, removes the item and saves; no
\* field, counter, event or return value records the operation.
FailedOperations == {}

\* The execution rejects and no catch block takes the error: it leaves
\* processQueue() before line 367 and rejects the add() that awaits the pass.
ExecRejectsUncaught(p, ok) ==
  /\ ok
  /\ CollaboratorSettles(p)
  /\ wFails' = IF passes[p].id = watched THEN Min(wFails + 1, FailCap) ELSE wFails
  /\ passes' = RemoveAt(passes, p)
  /\ ev' = [op |-> "reject", outcome |-> "threw"]
  /\ PassEnds("threw")
  /\ UNCHANGED <<queueShape, queue, storage, processing, online, nextId,
                 restarts, writeFails, lastSave, watched, wExecuted, wGone>>

\* The execution rejects: the catch block of lines 349-364 with item.attempts
\* unchanged, then break and line 367.
ExecRejects(p, ok) ==
  /\ CollaboratorSettles(p)
  /\ LET it == passes[p]
         q2 == IF TooManyAttempts(it) THEN Shift(queue) ELSE Requeue(queue)
     IN /\ queue' = q2
        /\ storage' = SaveQueue(queueShape, q2, ok)
        /\ Saved(ok)
        /\ wGone' = (wGone \/ (TooManyAttempts(it) /\ it.id = watched))
        /\ wFails' = IF it.id = watched THEN Min(wFails + 1, FailCap) ELSE wFails
  /\ processing' = FALSE
  /\ passes' = RemoveAt(passes, p)
  /\ ev' = [op |-> "reject", outcome |-> "returned"]
  /\ PassEnds("returned")
  /\ UNCHANGED <<queueShape, online, nextId, restarts, watched, wExecuted>>

\* clearQueue() without its saveQueue() call.
ClearQueueNoSave(ok) ==
  /\ ok
  /\ queueShape' = "array"
  /\ queue' = <<>>
  /\ wGone' = (wGone \/ watched \in IdsOf(queue))
  /\ ev' = [op |-> "clear", outcome |-> "returned"]
  /\ ret' = NoReturn
  /\ UNCHANGED <<storage, writeFails, lastSave, processing, online, passes,
                 nextId, restarts, watched, wFails, wExecuted, waiting>>

\* clearQueue(): this.queue = []; saveQueue().
ClearQueue(ok) ==
  /\ queueShape' = "array"
  /\ queue' = <<>>
  /\ storage' = SaveQueue("array", <<>>, ok)
  /\ Saved(ok)
  /\ wGone' = (wGone \/ watched \in IdsOf(queue))
  /\ ev' = [op |-> "clear", outcome |-> "returned"]
  /\ ret' = NoReturn
  /\ UNCHANGED <<processing, online, passes, nextId, restarts, watched, wFails,
                 wExecuted, waiting>>

\* The process terminates (suspended passes die with it) and a new
\* OfflineQueue is constructed: lines 279-282.
Restart ==
  /\ restarts < MaxRestarts
  /\ restarts' = restarts + 1
  /\ queueShape' = LoadShape(storage)
  /\ queue' = LoadItems(storage)
  /\ processing' = FALSE
  /\ passes' = <<>>
  /\ lastSave' = "none"
  /\ online' \in BOOLEAN
  /\ ev' = [op |-> "construct", outcome |-> "returned"]
  /\ waiting' = 0
  /\ ret' = NoReturn
  /\ UNCHANGED <<storage, nextId, writeFails, watched, wFails, wExecuted, wGone>>

Next ==
  \/ AddThrows /\ UNCHANGED <<ins, sa>>
  \/ \E ok \in BOOLEAN : Add(ok) /\ UNCHANGED <<ins, sa>>
  \/ GoOnline /\ UNCHANGED <<ins, sa>>
  \/ GoOffline /\ UNCHANGED <<ins, sa>>
  \/ \E p \in 1..Len(passes), ok \in BOOLEAN : ExecResolves(p, ok) /\ UNCHANGED <<ins, sa>>
  \/ \E p \in 1..Len(passes), ok \in BOOLEAN : ExecRejects(p, ok) /\ UNCHANGED <<ins, sa>>
  \/ \E ok \in BOOLEAN : ClearQueue(ok) /\ UNCHANGED <<ins, sa>>
  \/ Restart /\ UNCHANGED <<ins, sa>>

Spec == Init /\ [][Next]_vars

\* Connectivity keeps changing and every execution settles: the drain
\* triggers of lines 285 and 322-324 keep coming.
FairSpec ==
  /\ Init /\ [][Next]_vars
  /\ WF_vars(GoOnline /\ UNCHANGED <<ins, sa>>)
  /\ WF_vars(GoOffline /\ UNCHANGED <<ins, sa>>)
  /\ WF_vars(\E p \in 1..Len(passes), ok \in BOOLEAN :
               (ExecResolves(p, ok) \/ ExecRejects(p, ok)) /\ UNCHANGED <<ins, sa>>)

\* ================================================================ insights
\* The pure computations of src/Dashboard.jsx, src/Insights.jsx and
\* src/unnamed/part_009.  An instant is a whole number of hours since the
\* epoch; a calendar date ("yyyy-MM-dd") is the number of its day since the
\* epoch; daylight-saving changes are left out, a time zone is a fixed offset
\* from UTC.
HoursPerDay == 24
Now == 252                   \* new Date(): 12:00 UTC of day 10
Offsets == {-5, 0, 2}        \* the user's time zone: hours east of UTC
NoDate == -1                 \* a field that is null or missing
EarlierHours == {0, 8}
CompletedAts ==
  {NoDate} \cup {Now - HoursPerDay * k - h : k \in 0..MaxDaysBack, h \in EarlierHours}

\* format(d, "yyyy-MM-dd") of date-fns, also after startOfDay(d): the calendar
\* date of the instant in the local time zone.
FormatDate(t, off) == (t + off) \div HoursPerDay

\* new Date("yyyy-MM-dd"): a date-only string is read as midnight UTC.
ParseDate(d) == HoursPerDay * d

\* prevDay = new Date(checkDate); prevDay.setDate(prevDay.getDate() - 1);
\* checkDate = format(prevDay, "yyyy-MM-dd"): one day back on the local
\* calendar from the parsed instant, then its local date.
PrevDay(checkDate, off) == FormatDate(ParseDate(checkDate) - HoursPerDay, off)

\* tasks.filter(task => task.completed_at).map(task => format(startOfDay(...)))
RECURSIVE CompletedDates(_, _)
CompletedDates(tasks, off) ==
  IF tasks = <<>> THEN <<>>
  ELSE LET rest == CompletedDates(Tail(tasks), off)
       IN IF Head(tasks) = NoDate THEN rest
          ELSE <<FormatDate(Head(tasks), off)>> \o rest

\* [...new Set(dates)]: each date once, in the order of first occurrence.
RECURSIVE SetOf(_)
SetOf(dates) ==
  IF dates = <<>> THEN <<>>
  ELSE LET front == SetOf(SubSeq(dates, 1, Len(dates) - 1))
           last == dates[Len(dates)]
       IN IF last \in Range(front) THEN front ELSE Append(front, last)

\* The dates left in the order of first occurrence (no .sort().reverse()).
SortReverseMissing(dates) == dates

\* .sort().reverse(): "yyyy-MM-dd" strings sort as their dates; latest first.
RECURSIVE SortReverse(_)
SortReverse(dates) ==
  IF dates = <<>> THEN <<>>
  ELSE LET rest == SortReverse(Tail(dates))
           k == Cardinality({j \in 1..Len(rest) : rest[j] > Head(dates)})
       IN SubSeq(rest, 1, k) \o <<Head(dates)>> \o SubSeq(rest, k + 1, Len(rest))

\* for (const date of uniqueDates) { if (date === checkDate) { streak++; ... }
\* else break; } from the k-th date on.
RECURSIVE StreakLoop(_, _, _, _, _)
StreakLoop(uniqueDates, k, checkDate, streak, off) ==
  IF k > Len(uniqueDates) THEN streak
  ELSE IF uniqueDates[k] = checkDate
    THEN StreakLoop(uniqueDates, k + 1, PrevDay(checkDate, off), streak + 1, off)
    ELSE streak

\* "Calculate streak" of Dashboard.jsx (lines 81-98) and Insights.jsx (36-53).
Streak(tasks, off) ==
  StreakLoop(SortReverse(SetOf(CompletedDates(tasks, off))), 1,
             FormatDate(Now, off), 0, off)

\* The component renders with these tasks in this time zone.
CallStreak ==
  /\ ins = NoCall
  /\ \E off \in Offsets, n \in 0..MaxTasks :
       \E tasks \in [1..n -> CompletedAts] :
         ins' = [fn |-> "streak", tasks |-> tasks, off |-> off,
                 result |-> Streak(tasks, off)]
  /\ UNCHANGED qvars

\* ------------------------------------------------------ analyzeBurnoutRisk
DaysAveraged == 7            \* 7 * 24 * 60 * 60 * 1000 and totalMinutes / 7
MinutesPerHour == 60         \* dailyAverage / 60
HighHours == 10              \* hoursPerDay > 10
MediumHours == 8             \* hoursPerDay > 8
SevenDaysAgo == Now - DaysAveraged * HoursPerDay
StartedAts == {NoDate, SevenDaysAgo - 1, SevenDaysAgo, SevenDaysAgo + 1, Now + 1}
Durations == {NoDate, 1, 840, 3360}
BurnoutSessions == [started_at : StartedAts, duration : Durations]

\* session.started_at && new Date(session.started_at) > sevenDaysAgo
IsRecent(session) ==
  session.started_at # NoDate /\ session.started_at > SevenDaysAgo

\* recentSessions.reduce((sum, session) => sum + (session.duration || 0), 0)
\* over focusSessions.filter(IsRecent)
RECURSIVE TotalMinutes(_)
TotalMinutes(sessions) ==
  IF sessions = <<>> THEN 0
  ELSE LET session == sessions[Len(sessions)]
           sum == TotalMinutes(SubSeq(sessions, 1, Len(sessions) - 1))
       IN IF IsRecent(session)
            THEN sum + (IF session.duration = NoDate THEN 0 ELSE session.duration)
            ELSE sum

\* hoursPerDay >= hours in place of hoursPerDay > hours.
ReachesHours(totalMinutes, hours) ==
  totalMinutes >= hours * MinutesPerHour * DaysAveraged

\* hoursPerDay > hours, where hoursPerDay = totalMinutes / 7 / 60: the
\* quotient is not rounded to a whole number, so the comparison is made on
\* the numerators.
ExceedsHours(totalMinutes, hours) ==
  totalMinutes > hours * MinutesPerHour * DaysAveraged

\* analyzeBurnoutRisk(focusSessions, tasks): tasks is not read.  The two
\* numbers of the result, hoursPerDay and totalWeeklyHours, are totalMinutes
\* divided and printed with one decimal; the result keeps totalMinutes.
AnalyzeBurnoutRisk(focusSessions) ==
  LET totalMinutes == TotalMinutes(focusSessions)
  IN IF ExceedsHours(totalMinutes, HighHours)
       THEN [totalMinutes |-> totalMinutes, riskLevel |-> "high",
             recommendation |->
               "You're working very long hours. Consider taking breaks and delegating tasks."]
       ELSE IF ExceedsHours(totalMinutes, MediumHours)
         THEN [totalMinutes |-> totalMinutes, riskLevel |-> "medium",
               recommendation |->
                 "Your workload is high. Try to schedule regular breaks throughout the day."]
         ELSE [totalMinutes |-> totalMinutes, riskLevel |-> "low",
               recommendation |-> "You're maintaining a healthy work balance."]

CallBurnout ==
  /\ ins = NoCall
  /\ \E n \in 0..MaxSessions :
       \E sessions \in [1..n -> BurnoutSessions] :
         ins' = [fn |-> "burnout", sessions |-> sessions,
                 result |-> AnalyzeBurnoutRisk(sessions)]
  /\ UNCHANGED qvars

\* ----------------------------------------------- detectProductivityPatterns
MinCompleted == 5            \* completedSessions.length < 5
Noon == 12                   \* bestHour < 12
LateAfternoon == 17          \* bestHour < 17
NoHour == NoDate             \* let bestHour = null
Hours == 0..(HoursPerDay - 1)
Morning == Now - 3           \* 09:00 UTC
Afternoon == Now + 2         \* 14:00 UTC
FocusSessions ==
  [completed : {TRUE}, started_at : {NoDate, Morning, Afternoon}]
    \cup {[completed |-> FALSE, started_at |-> Morning]}

\* new Date(session.started_at).getHours(): the hour of the day in the local
\* time zone.
GetHours(t, off) == (t + off) % HoursPerDay

\* focusSessions.filter(s => s.completed)
RECURSIVE CompletedSessions(_)
CompletedSessions(sessions) ==
  IF sessions = <<>> THEN <<>>
  ELSE IF Head(sessions).completed
    THEN <<Head(sessions)>> \o CompletedSessions(Tail(sessions))
    ELSE CompletedSessions(Tail(sessions))

\* The forEach of lines 107-115: hourlyStats as the list of its properties
\* { hour, count } in the order in which they were created.  A session
\* without started_at is skipped.
RECURSIVE HourlyStats(_, _)
HourlyStats(sessions, off) ==
  IF sessions = <<>> THEN <<>>
  ELSE LET stats == HourlyStats(SubSeq(sessions, 1, Len(sessions) - 1), off)
           session == sessions[Len(sessions)]
           hour == GetHours(session.started_at, off)
       IN IF session.started_at = NoDate THEN stats
          ELSE IF \E k \in 1..Len(stats) : stats[k].hour = hour
            THEN [k \in 1..Len(stats) |->
                    IF stats[k].hour = hour
                      THEN [hour |-> hour, count |-> stats[k].count + 1]
                      ELSE stats[k]]
            ELSE Append(stats, [hour |-> hour, count |-> 1])

\* Object.entries(hourlyStats): property names that are integer indices come
\* first and in ascending numeric order, whatever the order of creation.
RECURSIVE ObjectEntries(_)
ObjectEntries(stats) ==
  IF stats = <<>> THEN <<>>
  ELSE LET rest == ObjectEntries(Tail(stats))
           k == Cardinality({j \in 1..Len(rest) : rest[j].hour < Head(stats).hour})
       IN SubSeq(rest, 1, k) \o <<Head(stats)>> \o SubSeq(rest, k + 1, Len(rest))

\* The forEach of lines 120-125 from the k-th entry on:
\* if (stats.count > bestCount) { bestCount = stats.count; bestHour = parseInt(hour); }
RECURSIVE BestLoop(_, _, _, _)
BestLoop(entries, k, bestHour, bestCount) ==
  IF k > Len(entries) THEN [hour |-> bestHour, count |-> bestCount]
  ELSE IF entries[k].count > bestCount
    THEN BestLoop(entries, k + 1, entries[k].hour, entries[k].count)
    ELSE BestLoop(entries, k + 1, bestHour, bestCount)

\* bestHour < 12 ? "morning" : bestHour < 17 ? "afternoon" : "evening"; null
\* compares as 0.
TimeLabel(bestHour) ==
  IF bestHour = NoHour \/ bestHour < Noon THEN "morning"
  ELSE IF bestHour < LateAfternoon THEN "afternoon" ELSE "evening"

\* detectProductivityPatterns(focusSessions); the message texts are left out.
DetectProductivityPatterns(focusSessions, off) ==
  LET completedSessions == CompletedSessions(focusSessions)
  IN IF Len(completedSessions) < MinCompleted
       THEN [pattern |-> "insufficient_data"]
       ELSE LET best == BestLoop(ObjectEntries(HourlyStats(completedSessions, off)),
                                 1, NoHour, 0)
            IN [pattern |-> "identified", peakHour |-> best.hour,
                peakTimeLabel |-> TimeLabel(best.hour),
                sessionsInPeakHour |-> best.count]

CallPatterns ==
  /\ ins = NoCall
  /\ \E off \in Offsets, n \in 0..MaxFocusSessions :
       \E sessions \in [1..n -> FocusSessions] :
         ins' = [fn |-> "patterns", sessions |-> sessions, off |-> off,
                 result |-> DetectProductivityPatterns(sessions, off)]
  /\ UNCHANGED qvars

\* ----------------------------------------- generateSmartTaskRecommendations
TopN == 3                    \* .slice(0, 3)
DueDates == {NoDate, 11, 12} \* task.due_date: none, tomorrow, the day after
RecTasks ==
  [status : {"todo"}, priority : {"high"}, due_date : DueDates]
    \cup [status : {"in_progress"}, priority : {"medium"}, due_date : {NoDate, 11}]
    \cup {[status |-> "todo", priority |-> "low", due_date |-> NoDate],
          [status |-> "completed", priority |-> "high", due_date |-> 11]}

\* Array.prototype.sort is the engine's: V8's TimSort, which for an array this
\* short is a run count followed by a binary insertion sort, or the straight
\* insertion sort that merge-sort engines use on short arrays.  The two agree
\* whenever the comparator is a consistent ordering.
Engines == {"binary insertion", "straight insertion"}

\* const priorityWeight = { high: 3, medium: 2, low: 1 }
PriorityWeight(priority) ==
  CASE priority = "high" -> 3
    [] priority = "medium" -> 2
    [] priority = "low" -> 1

\* The comparator with its arguments exchanged in the priority difference.
CompareAscending(a, b) ==
  IF PriorityWeight(a.priority) # PriorityWeight(b.priority)
    THEN PriorityWeight(a.priority) - PriorityWeight(b.priority)
    ELSE IF a.due_date # NoDate /\ b.due_date # NoDate
      THEN ParseDate(a.due_date) - ParseDate(b.due_date)
      ELSE 0

\* The comparator of lines 179-190.
Compare(a, b) ==
  IF PriorityWeight(a.priority) # PriorityWeight(b.priority)
    THEN PriorityWeight(b.priority) - PriorityWeight(a.priority)
    ELSE IF a.due_date # NoDate /\ b.due_date # NoDate
      THEN ParseDate(a.due_date) - ParseDate(b.due_date)
      ELSE 0

\* tasks.filter(t => t.status !== "completed"): a new array.
RECURSIVE PendingTasks(_)
PendingTasks(tasks) ==
  IF tasks = <<>> THEN <<>>
  ELSE IF Head(tasks).status # "completed"
    THEN <<Head(tasks)>> \o PendingTasks(Tail(tasks))
    ELSE PendingTasks(Tail(tasks))

Reverse(a) == [k \in 1..Len(a) |-> a[Len(a) + 1 - k]]
MoveTo(a, from, to) ==
  SubSeq(a, 1, to - 1) \o <<a[from]>> \o SubSeq(a, to, from - 1)
    \o SubSeq(a, from + 1, Len(a))

\* TimSort's run count: the last position of the run that starts the array,
\* descending when the second element compares below the first.
RECURSIVE RunEnd(_, _, _)
RunEnd(a, k, descending) ==
  IF k > Len(a) THEN k - 1
  ELSE LET order == Compare(a[k], a[k - 1])
       IN IF (descending /\ order >= 0) \/ (~descending /\ order < 0)
            THEN k - 1
            ELSE RunEnd(a, k + 1, descending)

\* TimSort's binary search for the place of pivot in a[left .. right - 1].
RECURSIVE BinarySearch(_, _, _, _)
BinarySearch(a, pivot, left, right) ==
  IF left < right
    THEN LET mid == left + ((right - left) \div 2)
         IN IF Compare(pivot, a[mid]) < 0
              THEN BinarySearch(a, pivot, left, mid)
              ELSE BinarySearch(a, pivot, mid + 1, right)
    ELSE left

RECURSIVE BinaryInsertionSort(_, _)
BinaryInsertionSort(a, start) ==
  IF start > Len(a) THEN a
  ELSE BinaryInsertionSort(MoveTo(a, start, BinarySearch(a, a[start], 1, start)),
                           start + 1)

TimSort(a) ==
  IF Len(a) < 2 THEN a
  ELSE LET descending == Compare(a[2], a[1]) < 0
           run == RunEnd(a, 3, descending)
           made == IF descending
                     THEN Reverse(SubSeq(a, 1, run)) \o SubSeq(a, run + 1, Len(a))
                     ELSE a
       IN BinaryInsertionSort(made, run + 1)

\* Straight insertion: the element moves left past every element it compares
\* below.
RECURSIVE PlaceOf(_, _, _)
PlaceOf(a, pivot, j) ==
  IF j >= 1 /\ Compare(pivot, a[j]) < 0 THEN PlaceOf(a, pivot, j - 1) ELSE j + 1

RECURSIVE InsertionSort(_, _)
InsertionSort(a, start) ==
  IF start > Len(a) THEN a
  ELSE InsertionSort(MoveTo(a, start, PlaceOf(a, a[start], start - 1)), start + 1)

\* pendingTasks.sort(comparator)
ArraySort(a, engine) ==
  IF engine = "binary insertion" THEN TimSort(a) ELSE InsertionSort(a, 2)

\* `${task.priority} priority${task.due_date ? ", due soon" : ""}`
Reason(task) ==
  <<task.priority, " priority", IF task.due_date # NoDate THEN ", due soon" ELSE "">>

\* tasks.sort(comparator).filter(...) in place of tasks.filter(...).sort(...):
\* the argument itself is reordered.
GenerateSortsArgument(tasks, engine) ==
  LET sorted == PendingTasks(ArraySort(tasks, engine))
      prioritized == SubSeq(sorted, 1, Min(TopN, Len(sorted)))
  IN [recommendations |->
        [k \in 1..Len(prioritized) |->
           [task |-> prioritized[k], reason |-> Reason(prioritized[k])]],
      pendingTasks |-> sorted,
      tasks |-> ArraySort(tasks, engine)]

\* generateSmartTaskRecommendations(tasks); the message texts are left out.
\* The result is kept with the two arrays as the call leaves them: tasks, the
\* argument, and pendingTasks, the array that filter made and sort reordered.
GenerateSmartTaskRecommendations(tasks, engine) ==
  LET pendingTasks == PendingTasks(tasks)
      sorted == ArraySort(pendingTasks, engine)
      prioritized == SubSeq(sorted, 1, Min(TopN, Len(sorted)))
  IN [recommendations |->
        [k \in 1..Len(prioritized) |->
           [task |-> prioritized[k], reason |-> Reason(prioritized[k])]],
      pendingTasks |-> sorted,
      tasks |-> tasks]

CallRecommendations ==
  /\ ins = NoCall
  /\ \E engine \in Engines, n \in 0..MaxRecTasks :
       \E tasks \in [1..n -> RecTasks] :
         ins' = [fn |-> "recommendations", tasks |-> tasks, engine |-> engine,
                 result |-> GenerateSmartTaskRecommendations(tasks, engine)]
  /\ UNCHANGED qvars

\* ----------------------------------------------------- estimateTaskDuration
DefaultDaily == 15
DefaultWeekly == 30
DefaultProject == 60
DefaultSomeday == 45
DefaultOther == 30           \* defaults[task.category] || 30
Categories == {"daily", "weekly", "project", "someday", "errand", "toString"}
Estimates == {NoDate, 0, 20, 45}      \* task.time_estimate, in minutes
\* The names every object literal inherits from Object.prototype.
ObjectPrototypeNames ==
  {"constructor", "toString", "valueOf", "hasOwnProperty", "isPrototypeOf",
   "propertyIsEnumerable", "toLocaleString", "__proto__"}
EstimatedTasks == [category : Categories, time_estimate : Estimates]
HistoricalTasks ==
  [category : {"daily", "errand"}, status : {"completed"}, time_estimate : Estimates]
    \cup {[category |-> "daily", status |-> "todo", time_estimate |-> 20]}

\* What the function returns: a number of minutes, or whatever else a
\* property lookup gives.
Minutes(n) == [kind |-> "number", value |-> n]
InheritedFunction == [kind |-> "function", value |-> 0]

\* A value used as a condition: null, undefined and 0 are falsy.
Truthy(v) == v # NoDate /\ v # 0

\* historicalTasks.filter(t => t.category === task.category &&
\*   t.status === "completed" && t.time_estimate)
RECURSIVE Similar(_, _)
Similar(task, historicalTasks) ==
  IF historicalTasks = <<>> THEN <<>>
  ELSE LET t == Head(historicalTasks)
           rest == Similar(task, Tail(historicalTasks))
       IN IF /\ t.category = task.category
             /\ t.status = "completed"
             /\ Truthy(t.time_estimate)
            THEN <<t>> \o rest ELSE rest

\* defaults[task.category] || 30, defaults being an object literal: a name it
\* inherits is found as well.
Defaults(category) ==
  CASE category = "daily" -> Minutes(DefaultDaily)
    [] category = "weekly" -> Minutes(DefaultWeekly)
    [] category = "project" -> Minutes(DefaultProject)
    [] category = "someday" -> Minutes(DefaultSomeday)
    [] category \in ObjectPrototypeNames -> InheritedFunction
    [] OTHER -> Minutes(DefaultOther)

\* similar.reduce((sum, t) => sum + (t.time_estimate || 0), 0)
RECURSIVE SumEstimates(_)
SumEstimates(similar) ==
  IF similar = <<>> THEN 0
  ELSE (IF Truthy(Head(similar).time_estimate) THEN Head(similar).time_estimate ELSE 0)
         + SumEstimates(Tail(similar))

\* Math.round(sum / n) for sum >= 0: to the nearest whole number, a half
\* going up.
MathRound(sum, n) == (2 * sum + n) \div (2 * n)

\* estimateTaskDuration(task, historicalTasks)
EstimateTaskDuration(task, historicalTasks) ==
  IF Truthy(task.time_estimate) THEN Minutes(task.time_estimate)
  ELSE LET similar == Similar(task, historicalTasks)
       IN IF Len(similar) = 0
            THEN Defaults(task.category)
            ELSE Minutes(MathRound(SumEstimates(similar), Len(similar)))

CallEstimate ==
  /\ ins = NoCall
  /\ \E task \in EstimatedTasks, n \in 0..MaxHistory :
       \E historicalTasks \in [1..n -> HistoricalTasks] :
         ins' = [fn |-> "estimate", task |-> task, tasks |-> historicalTasks,
                 result |-> EstimateTaskDuration(task, historicalTasks)]
  /\ UNCHANGED qvars

\* ------------------------------------------------------------ a second call
\* The array passed to the call, as the call leaves it.  filter, map, reduce
\* and forEach do not write to the array they are called on; sort does, and
\* the one sort on a task array is that of generateSmartTaskRecommendations.
ArgumentAfter(call) ==
  CASE call.fn = "recommendations" -> call.result.tasks
    [] call.fn \in {"streak", "estimate"} -> call.tasks
    [] OTHER -> call.sessions

\* The function of the call on an array; none of the five reads anything but
\* its arguments and the clock.
Apply(call, array) ==
  CASE call.fn = "streak" -> Streak(array, call.off)
    [] call.fn = "burnout" -> AnalyzeBurnoutRisk(array)
    [] call.fn = "patterns" -> DetectProductivityPatterns(array, call.off)
    [] call.fn = "recommendations" ->
         GenerateSmartTaskRecommendations(array, call.engine)
    [] call.fn = "estimate" -> EstimateTaskDuration(call.task, array)

\* The same function is called again, at the same clock time, with the array
\* the first call was given.
CallAgain ==
  /\ ins.fn \notin {"none", "again"}
  /\ ins' = [fn |-> "again", first |-> ins, after |-> ArgumentAfter(ins),
             second |-> Apply(ins, ArgumentAfter(ins))]
  /\ UNCHANGED qvars

InsightsInit ==
  /\ Init
  /\ storage.kind = "absent"
  /\ online
  /\ watched = 1

InsightsNext ==
  \/ CallStreak /\ UNCHANGED sa
  \/ CallBurnout /\ UNCHANGED sa
  \/ CallPatterns /\ UNCHANGED sa
  \/ CallRecommendations /\ UNCHANGED sa
  \/ CallEstimate /\ UNCHANGED sa
  \/ CallAgain /\ UNCHANGED sa

InsightsSpec == InsightsInit /\ [][InsightsNext]_vars

\* =============================================================== safeAsync
\* safeAsync(asyncFn, options) of src/safeAsyncUtils.js (lines 20-77).  The
\* call is suspended on "await asyncFn()" and on the retry delay; asyncFn
\* resolves or rejects (or throws) at each invocation as it likes; each of
\* the callbacks onSuccess and onError is absent, returns, or throws.
Callbacks == {"none", "returns", "throws"}
RetryCounts == -1..MaxRetry

\* const result = await asyncFn(): the invocation.
Invoke(s) ==
  [s EXCEPT !.pc = "asyncFn", !.calls = @ + 1,
            !.calledAfterResolve = @ \/ s.resolved > 0]

\* The catch block (lines 45-68): with retries left, the delay; otherwise
\* onError, when given, and the failure result.  An error thrown by onError
\* leaves safeAsync.
Catch(s) ==
  IF s.attempt < s.retryCount
    THEN [s EXCEPT !.pc = "delay"]
    ELSE LET t == IF s.onError # "none"
                    THEN [s EXCEPT !.onErrorCalls = @ + 1] ELSE s
         IN IF s.onError = "throws"
              THEN [t EXCEPT !.pc = "done", !.result = "rejected"]
              ELSE [t EXCEPT !.pc = "done", !.result = "failure"]

\* safeAsync is called: lines 21-34 up to the first invocation, or, the loop
\* not being entered, the return of lines 72-76.
SafeAsyncCall ==
  /\ sa.pc = "idle"
  /\ \E retryCount \in RetryCounts, onSuccess \in Callbacks, onError \in Callbacks :
       LET s == [NotCalled EXCEPT !.retryCount = retryCount,
                                  !.onSuccess = onSuccess, !.onError = onError]
       IN sa' = IF 0 <= retryCount
                  THEN Invoke(s)
                  ELSE [s EXCEPT !.pc = "done", !.result = "failure"]
  /\ UNCHANGED <<qvars, ins>>

\* asyncFn resolves: onSuccess inside the try block (lines 36-38), then the
\* success result; an error thrown by onSuccess is caught as a failed attempt.
AsyncFnResolves ==
  /\ sa.pc = "asyncFn"
  /\ LET s == [sa EXCEPT !.resolved = @ + 1]
     IN sa' = IF sa.onSuccess = "throws"
                THEN Catch(s)
                ELSE [s EXCEPT !.pc = "done", !.result = "success"]
  /\ UNCHANGED <<qvars, ins>>

\* asyncFn rejects or throws.
AsyncFnRejects ==
  /\ sa.pc = "asyncFn"
  /\ sa' = Catch(sa)
  /\ UNCHANGED <<qvars, ins>>

\* The retry delay is over: continue, attempt++, the next invocation.
DelayElapses ==
  /\ sa.pc = "delay"
  /\ sa' = Invoke([sa EXCEPT !.attempt = @ + 1])
  /\ UNCHANGED <<qvars, ins>>

SafeAsyncInit == InsightsInit

SafeAsyncNext ==
  \/ SafeAsyncCall
  \/ AsyncFnResolves
  \/ AsyncFnRejects
  \/ DelayElapses

SafeAsyncSpec == SafeAsyncInit /\ [][SafeAsyncNext]_vars

\* ------------------------------------------------------------ observations
InQueue(i) == queueShape = "array" /\ i \in IdsOf(queue)
Enqueued(i) == i < nextId
Executing(i) == \E p \in 1..Len(passes) : passes[p].id = i
AddStep == nextId' = nextId + 1
OnlineEventStep == ~online /\ ev'.op = "online"
\* The stored sequence equals the in-memory queue, item for item.
SameItems(st, q) ==
  /\ st.kind = "array"
  /\ Len(st.items) = Len(q)
  /\ \A k \in 1..Len(q) :
       /\ (st.items[k].tag = "op") = (q[k].tag = "op")
       /\ st.items[k].id = q[k].id
       /\ st.items[k].attempts = q[k].attempts

\* ------------------------------------------------------------------ claims

\* C1: bounded retry.  No operation is executed more than 3 times: an
\* operation that has already failed 3 times is never being executed again.
C1_BoundedRetry == Executing(watched) => wFails < MaxAttempts

\* C2: at most one drain pass is active at any time, and a trigger (online
\* event or enqueue) that arrives while a pass is suspended on an executing
\* operation starts no pass and no execution.
C2_AtMostOneDrainPass ==
  /\ [](Len(passes) <= 1)
  /\ [][((AddStep \/ OnlineEventStep) /\ passes # <<>>)
          => (passes' = passes /\ wExecuted' = wExecuted
              /\ processing' = processing)]_vars
C2_Witness == Len(passes) = 1 /\ ev.outcome = "blocked"

\* C3: FIFO replay.  When an operation is being executed, every operation
\* enqueued before it has been executed already, unless clearQueue removed
\* it (no storage write having failed).
C3_FifoReplay ==
  (writeFails = 0 /\ \E p \in 1..Len(passes) : watched < passes[p].id)
    => (wExecuted \/ wGone)

\* C4: persistence invariant.  When the latest storage write succeeded, the
\* sequence stored under the key equals the in-memory queue, item for item,
\* in the same order and with the same attempt counters.
C4_PersistenceInvariant == lastSave = "ok" => SameItems(storage, queue)
C4_Witness ==
  /\ ev.op = "reject" /\ lastSave = "ok" /\ Len(queue) >= 2
  /\ queue[Len(queue)].id = watched /\ wFails >= 1

\* C5: restart durability.  Every operation that was enqueued and not yet
\* removed by its successful execution, a discard or a clear is in the
\* sequence a newly constructed queue would load (no storage write having
\* failed).
C5_RestartDurability ==
  (writeFails = 0 /\ Enqueued(watched) /\ ~wGone)
    => watched \in IdsOf(LoadItems(storage))

\* C6: every queued operation eventually leaves the queue, the drain
\* triggers being fair.
C6_EventuallyLeaves == InQueue(watched) ~> ~InQueue(watched)

\* C7: enqueue while offline appends exactly one item with attempts = 0 at
\* the tail, makes getQueueLength() one larger, leaves the items queued
\* before unchanged and in place, and executes nothing.
C7_EnqueueOffline ==
  [][(AddStep /\ ~online)
       => /\ queue' = Append(queue, OpItem(nextId, 0))
          /\ GetQueueLength' = GetQueueLength + 1
          /\ passes' = passes
          /\ wExecuted' = wExecuted
          /\ processing' = processing]_vars
C7_Witness ==
  /\ ev = [op |-> "add", outcome |-> "queued"]
  /\ ~online /\ Len(queue) >= 2 /\ passes = <<>>

C9_ThirdAttemptRemoves ==
  (writeFails = 0 /\ wFails >= MaxAttempts /\ ~Executing(watched))
    => ~InQueue(watched)

\* C10: loading is fail-open.  Constructed from a stored value that is not a
\* serialized sequence, the queue is empty, getQueueLength() is 0, and a
\* following enqueue does not throw.
C10_LoadFailOpen ==
  /\ (ev.op = "construct" /\ storage.kind # "array")
       => (queueShape = "array" /\ queue = <<>> /\ GetQueueLength = 0)
  /\ ev.outcome # "push threw"

\* C11: a failed execution never raises to the caller.  The step in which an
\* execution rejects ends the drain pass normally (the guard is released and
\* the pass is over), hands the identifier to the add() call that awaits the
\* pass, and changes the queue only by a requeue or a discard.
C11_FailureStaysInside ==
  [][ev'.op = "reject"
       => /\ ev'.outcome = "returned"
          /\ ~processing'
          /\ Len(passes') = Len(passes) - 1
          /\ ret' = waiting
          /\ waiting' = 0
          /\ (queue' = Requeue(queue) \/ queue' = Shift(queue))]_vars
C11_Witness ==
  /\ ev.op = "reject" /\ ret > 0 /\ ~processing /\ passes = <<>>
  /\ InQueue(ret)

\* C12: a storage write that fails leaves the rest as a successful write
\* does.  In the step of the failed write the in-memory queue keeps the
\* mutation (the enqueued item is queued, the removed item is removed, the
\* cleared queue is empty), add() hands its caller what it hands it after a
\* successful write, and the drain guard and the passes are as after a
\* successful write.
C12_WriteFailureKeepsMemory ==
  [][writeFails' # writeFails
       => /\ AddStep
               => LET r == IF online
                             THEN ProcessQueue("array", Enqueue(queue, nextId),
                                               processing, online, passes)
                             ELSE PassResult(processing, passes, 0, "queued")
                  IN /\ queue' = Enqueue(queue, nextId)
                     /\ ret' = AddReturn(r.outcome, nextId)
                     /\ processing' = r.processing
                     /\ passes' = r.passes
          /\ ev'.op = "resolve"
               => \E p \in 1..Len(passes) :
                    LET q2 == Shift(BumpAttempts(queue, passes[p].id))
                        r == DrainLoop(q2, online, RemoveAt(passes, p), passes[p].n)
                    IN /\ queue' = q2
                       /\ processing' = r.processing
                       /\ passes' = r.passes
          /\ ev'.op = "reject"
               => /\ queue' = Requeue(queue) \/ queue' = Shift(queue)
                  /\ ~processing'
          /\ ev'.op = "clear"
               => /\ queue' = <<>>
                  /\ processing' = processing
                  /\ passes' = passes]_vars
C12_Witness ==
  /\ lastSave = "failed" /\ ev = [op |-> "add", outcome |-> "queued"]
  /\ ret = nextId - 1 /\ InQueue(ret)
  /\ ret \notin IdsOf(LoadItems(storage))

\* C13: enqueue does not wait for the drain pass it triggers.  An add() call
\* made while online that starts a pass hands the identifier to its caller in
\* the same step, while the pass is still executing.
C13_EnqueueDoesNotWait ==
  [][(AddStep /\ online /\ ev'.outcome = "suspended") => ret' = nextId]_vars

\* C14: an operation that has failed three times is recorded as failed in
\* state of the queue that a diagnostics collaborator can read.
C14_DiscardIsRecorded ==
  (wFails >= MaxAttempts /\ ~Executing(watched))
    => watched \in FailedOperations

\* The local calendar days on which a task was completed.
DaysCompleted(tasks, off) ==
  {FormatDate(tasks[k], off) : k \in {j \in 1..Len(tasks) : tasks[j] # NoDate}}

\* C15: the streak is the number of consecutive calendar days, counted back
\* from today inclusive in the user's time zone, on each of which a task was
\* completed: 0 when none was completed today, and the count stops at the
\* first day without a completion; this for every UTC offset.
C15_StreakIsConsecutiveDays ==
  ins.fn = "streak"
    => LET days == DaysCompleted(ins.tasks, ins.off)
           today == FormatDate(Now, ins.off)
       IN /\ \A k \in 0..(ins.result - 1) : today - k \in days
          /\ today - ins.result \notin days

\* C16: the streak of no tasks is 0, the streak is the same for every
\* permutation of the tasks, and it is unchanged by one more task completed
\* on a day that already has a completed task.
C16_StreakOfTheSetOfDays ==
  ins.fn = "streak"
    => /\ ins.tasks = <<>> => ins.result = 0
       /\ \A f \in Permutations(1..Len(ins.tasks)) :
            Streak([k \in 1..Len(ins.tasks) |-> ins.tasks[f[k]]], ins.off)
              = ins.result
       /\ \A c \in CompletedAts \ {NoDate} :
            FormatDate(c, ins.off) \in DaysCompleted(ins.tasks, ins.off)
              => Streak(Append(ins.tasks, c), ins.off) = ins.result
C16_Witness ==
  /\ ins.fn = "streak" /\ Len(ins.tasks) = 3 /\ ins.result = 2
  /\ ins.tasks[1] < ins.tasks[2] /\ ins.tasks[1] # NoDate
  /\ FormatDate(ins.tasks[2], ins.off) = FormatDate(ins.tasks[3], ins.off)
  /\ ins.tasks[2] # ins.tasks[3]

\* C17: the risk level follows the total minutes T of the window: high
\* exactly when T > 4200, medium exactly when 3360 < T <= 4200, low
\* otherwise; the recommendation is the fixed text of the level.
C17_RiskThresholds ==
  ins.fn = "burnout"
    => LET T == ins.result.totalMinutes
           level == ins.result.riskLevel
           text == ins.result.recommendation
       IN /\ level = "high" <=> T > 4200
          /\ level = "medium" <=> (3360 < T /\ T <= 4200)
          /\ level = "low" <=> T <= 3360
          /\ level = "high" =>
               text = "You're working very long hours. Consider taking breaks and delegating tasks."
          /\ level = "medium" =>
               text = "Your workload is high. Try to schedule regular breaks throughout the day."
          /\ level = "low" => text = "You're maintaining a healthy work balance."
C17_Witness ==
  /\ ins.fn = "burnout" /\ ins.result.totalMinutes = 4200
  /\ ins.result.riskLevel = "medium"

\* The sum of the durations of the sessions started in [from, to].
RECURSIVE MinutesStartedIn(_, _, _)
MinutesStartedIn(sessions, from, to) ==
  IF sessions = <<>> THEN 0
  ELSE LET session == Head(sessions)
           rest == MinutesStartedIn(Tail(sessions), from, to)
       IN IF /\ session.started_at # NoDate
             /\ from <= session.started_at /\ session.started_at <= to
             /\ session.duration # NoDate
            THEN session.duration + rest
            ELSE rest

\* C18: the total is the sum of the durations of exactly the sessions
\* started in [now - 7 x 24h, now], both ends included: a session started
\* exactly 7 x 24h ago counts; one started earlier, after now, or without a
\* started-at does not.
C18_WindowIsClosed ==
  ins.fn = "burnout"
    => ins.result.totalMinutes
         = MinutesStartedIn(ins.sessions, Now - 7 * 24, Now)

\* The positions of the completed sessions started in hour h, local time.
CompletedIn(sessions, off, h) ==
  {k \in 1..Len(sessions) :
     /\ sessions[k].completed
     /\ sessions[k].started_at # NoDate
     /\ GetHours(sessions[k].started_at, off) = h}
NumCompleted(sessions) == Cardinality({k \in 1..Len(sessions) : sessions[k].completed})

\* C19: the result is "insufficient data" exactly when fewer than 5 of the
\* sessions are completed; in every other case it is "identified", its peak
\* hour is an integer in 0..23 and its session count is at least 1.
C19_InsufficientBelowFive ==
  ins.fn = "patterns"
    => /\ ins.result.pattern = "insufficient_data" <=> NumCompleted(ins.sessions) < 5
       /\ NumCompleted(ins.sessions) >= 5
            => /\ ins.result.pattern = "identified"
               /\ ins.result.peakHour \in 0..23
               /\ ins.result.sessionsInPeakHour >= 1

\* C20: with at least 5 completed sessions the peak hour is an hour with the
\* largest number of completed sessions, the count returned is that number,
\* and of several such hours the one returned is the one whose first session
\* comes earliest in the input.
C20_PeakIsFirstSeenMaximum ==
  (ins.fn = "patterns" /\ NumCompleted(ins.sessions) >= 5)
    => LET count(h) == Cardinality(CompletedIn(ins.sessions, ins.off, h))
           first(h) == CHOOSE k \in CompletedIn(ins.sessions, ins.off, h) :
                         \A j \in CompletedIn(ins.sessions, ins.off, h) : k <= j
           peak == ins.result.peakHour
       IN /\ peak \in 0..23
          /\ \A h \in 0..23 : count(h) <= count(peak)
          /\ ins.result.sessionsInPeakHour = count(peak)
          /\ \A h \in 0..23 : count(h) = count(peak) => first(peak) <= first(h)

\* The number of positions of seq that hold x.
Occurrences(seq, x) == Cardinality({k \in 1..Len(seq) : seq[k] = x})
Recommended(i) == [k \in 1..Len(i.result.recommendations) |->
                     i.result.recommendations[k].task]

\* C21: the recommendations are min(3, number of non-completed tasks) tasks
\* of the input, each of them non-completed and none taken more often than
\* the input holds it, in non-increasing priority weight, and no
\* non-completed task left out has a higher priority than a recommended one;
\* without a non-completed task the list is empty.
C21_TopThreeByPriority ==
  ins.fn = "recommendations"
    => LET recs == Recommended(ins)
           pending == {k \in 1..Len(ins.tasks) : ins.tasks[k].status # "completed"}
       IN /\ Len(recs) = Min(3, Cardinality(pending))
          /\ \A k \in 1..Len(recs) :
               /\ recs[k].status # "completed"
               /\ Occurrences(recs, recs[k]) <= Occurrences(ins.tasks, recs[k])
          /\ \A k \in 1..(Len(recs) - 1) :
               PriorityWeight(recs[k].priority) >= PriorityWeight(recs[k + 1].priority)
          /\ \A j \in pending, k \in 1..Len(recs) :
               PriorityWeight(ins.tasks[j].priority) > PriorityWeight(recs[k].priority)
                 => Occurrences(recs, ins.tasks[j]) = Occurrences(ins.tasks, ins.tasks[j])
C21_Witness ==
  /\ ins.fn = "recommendations" /\ Len(ins.tasks) = 4
  /\ Len(ins.result.recommendations) = 3
  /\ ins.tasks[1].priority = "low" /\ ins.tasks[4].priority = "high"
  /\ \A k \in 1..4 : ins.tasks[k].status # "completed"
  /\ ins.result.recommendations[3].task.priority = "medium"

\* C22: in the order the tasks have before the first 3 are taken, two
\* non-completed tasks of equal priority that both have a due date stand in
\* ascending due-date order.
C22_DatedTasksAscending ==
  ins.fn = "recommendations"
    => LET sorted == ins.result.pendingTasks
       IN \A j, k \in 1..Len(sorted) :
            (/\ j < k
             /\ sorted[j].priority = sorted[k].priority
             /\ sorted[j].due_date # NoDate /\ sorted[k].due_date # NoDate)
              => sorted[j].due_date <= sorted[k].due_date

\* C23: the first recommendation is, among the non-completed tasks of the
\* highest priority present, one with the earliest due date.
C23_EarliestDueFirst ==
  (ins.fn = "recommendations" /\ ins.result.recommendations # <<>>)
    => LET first == ins.result.recommendations[1].task
       IN \A k \in 1..Len(ins.tasks) :
            (/\ ins.tasks[k].status # "completed"
             /\ ins.tasks[k].due_date # NoDate
             /\ \A j \in 1..Len(ins.tasks) :
                  ins.tasks[j].status # "completed"
                    => PriorityWeight(ins.tasks[j].priority)
                         <= PriorityWeight(ins.tasks[k].priority))
              => (first.due_date # NoDate /\ first.due_date <= ins.tasks[k].due_date)

\* The time-estimates set on the completed historical tasks of a category.
RECURSIVE EstimatesOf(_, _)
EstimatesOf(category, historicalTasks) ==
  IF historicalTasks = <<>> THEN <<>>
  ELSE LET t == Head(historicalTasks)
           rest == EstimatesOf(category, Tail(historicalTasks))
       IN IF /\ t.category = category /\ t.status = "completed"
             /\ t.time_estimate # NoDate
            THEN <<t.time_estimate>> \o rest ELSE rest
RECURSIVE SumOf(_)
SumOf(seq) == IF seq = <<>> THEN 0 ELSE Head(seq) + SumOf(Tail(seq))

\* C24: the estimate is the task's own time-estimate whenever that is set;
\* otherwise the rounded mean of the time-estimates of the completed
\* historical tasks of the same category; otherwise, there being none, the
\* default of the category (daily 15, weekly 30, project 60, someday 45) and
\* 30 for any other category.
C24_EstimateReference ==
  ins.fn = "estimate"
    => LET own == ins.task.time_estimate
           past == EstimatesOf(ins.task.category, ins.tasks)
           default == CASE ins.task.category = "daily" -> 15
                        [] ins.task.category = "weekly" -> 30
                        [] ins.task.category = "project" -> 60
                        [] ins.task.category = "someday" -> 45
                        [] OTHER -> 30
       IN /\ ins.result.kind = "number"
          /\ ins.result.value =
               IF own # NoDate THEN own
               ELSE IF past # <<>>
                 THEN (2 * SumOf(past) + Len(past)) \div (2 * Len(past))
                 ELSE default

\* The array the call was given.
ArgumentBefore(call) ==
  IF call.fn \in {"streak", "estimate", "recommendations"}
    THEN call.tasks ELSE call.sessions

C26_FailureCountsAttempt ==
  [][ev'.op = "reject"
       => /\ \E p \in 1..Len(passes) :
               LET it == passes[p]
               IN IF it.attempts + 1 >= 3
                    THEN queue' = Tail(queue)
                    ELSE queue' = Append(Tail(queue), OpItem(it.id, it.attempts + 1))
          /\ Len(passes') = Len(passes) - 1
          /\ wExecuted' = wExecuted]_vars

\* C27: the drain guard is never left set: whenever no pass is executing, the
\* guard is clear.
C27_GuardReleased == passes = <<>> => ~processing

\* The queue without the entry of operation id.
Without(q, id) == SelectSeq(q, LAMBDA x : ~(x.tag = "op" /\ x.id = id))

\* C28: what is removed or moved after an execution is the executed item.
\* After a success the queue is the queue without that item; after a failure
\* the other entries are the same and in the same order as before.
C28_RemovalHitsExecutedItem ==
  /\ [][ev'.op = "resolve"
          => \E p \in 1..Len(passes) :
               queue' = Without(queue, passes[p].id)]_vars
  /\ [][ev'.op = "reject"
          => \E p \in 1..Len(passes) :
               Without(queue', passes[p].id) = Without(queue, passes[p].id)]_vars

\* C29: queue accounting.  An operation is in the queue at most once; while
\* no pass is executing every queued item has an attempt counter of 0, 1 or
\* 2; and the queue holds exactly the operations enqueued and not removed by
\* their success, a discard or a clear, so that getQueueLength() is their
\* number (no storage write having failed).
C29_Accounting ==
  /\ \A j, k \in 1..Len(queue) :
       (j < k /\ queue[j].tag = "op" /\ queue[k].tag = "op")
         => queue[j].id # queue[k].id
  /\ passes = <<>> => \A k \in 1..Len(queue) : queue[k].attempts \in 0..2
  /\ writeFails = 0
       => /\ \A k \in 1..Len(queue) : queue[k].tag = "op"
          /\ (Enqueued(watched) /\ ~wGone) <=> InQueue(watched)

\* C30: safeAsync never rejects and retries boundedly: asyncFn is invoked at
\* most retryCount + 1 times and never again after an invocation of it has
\* resolved, the result has success = true exactly when an invocation
\* resolved, and onError is called at most once and only after the last
\* allowed attempt has failed.
C30_SafeAsyncContract ==
  /\ sa.result # "rejected"
  /\ sa.calls <= sa.retryCount + 1
  /\ ~sa.calledAfterResolve
  /\ sa.pc = "done" => (sa.result = "success" <=> sa.resolved > 0)
  /\ sa.onErrorCalls <= 1
  /\ sa.onErrorCalls = 1 => (sa.attempt = sa.retryCount /\ sa.pc = "done")

====
